---- MODULE Spec2Model ----
(***************************************************************************)
(* A model of tpkutils: the reader of ArcGIS compact-cache tile packages   *)
(* (src/tpkutils/__init__.py) and its command line (src/tpkutils/cli.py).  *)
(*                                                                         *)
(* Representation choices, valid for every definition below:               *)
(*  - a byte string is a sequence of integers 0..255;                      *)
(*  - a text that the code parses (an archive entry name, the --zoom       *)
(*    option, the cache format) is a sequence of one-character strings;    *)
(*  - a Python int that may exceed 31 bits (a decoded offset) is a pair    *)
(*    [hi, lo] of limbs standing for hi * 2^24 + lo;                       *)
(*  - None is the value NoneVal; levels and zooms are never negative;      *)
(*  - a bundle index (16384 five-byte entries) is kept run-length encoded: *)
(*    the entries that differ from the common `fill` entry are listed in   *)
(*    `cells`, and `len` is the number of entries the file holds.          *)
(***************************************************************************)
EXTENDS Integers, Sequences, FiniteSets, TLC

VARIABLES
    archive,    \* the tile package file (zip): conf.xml values and bundles
    tpk,        \* the TPK reader object's attributes
    gens,       \* the read_tiles generators held by the caller, by flip_y
    files,      \* the mbtiles output file: NoFile or its contents
    dirs,       \* the output directory: NoDir or the files in it
    last,       \* the last call made: its name, arguments and outcome
    buffer,     \* codec: the byte buffer handed to buffer_to_offset
    offset,     \* codec: the value buffer_to_offset returned for it
    fp,         \* the ZipFile the last TPK(filename) opened: none, open, closed
    db          \* the MBtiles object of tpkutils.mbtiles and its database

vars == <<archive, tpk, gens, files, dirs, last, buffer, offset, fp, db>>

\* ------------------------------------------------------------- constants

BUNDLE_DIM == 128
INDEX_SIZE == 5
\* sys.maxsize, cut to the largest integer TLC represents
MaxSize == 2147483647
\* None
NoneVal == -1

\* ------------------------------------------------------------- bounds

\* longest buffer handed to buffer_to_offset in the codec specification
MaxBufLen == 5
\* the longest batch handed to add_tiles, and the most rows of a database
MaxBatch == 2
MaxRows == 3

\* ------------------------------------------------------------- helpers

Min(a, b) == IF a < b THEN a ELSE b
Max(a, b) == IF a > b THEN a ELSE b

Pow2(n) == 2 ^ n

SetMin(S) == CHOOSE m \in S : \A n \in S : m <= n
SetMax(S) == CHOOSE m \in S : \A n \in S : m >= n

Range(s) == {s[k] : k \in 1..Len(s)}

\* the elements of a finite set of integers, ascending
RECURSIVE SortedSeq(_)
SortedSeq(S) == IF S = {} THEN <<>>
                ELSE <<SetMin(S)>> \o SortedSeq(S \ {SetMin(S)})

\* list.sort() on a list of integers (keeps duplicates)
RECURSIVE Insert(_, _)
Insert(v, s) == IF s = <<>> THEN <<v>>
                ELSE IF v <= Head(s) THEN <<v>> \o s
                ELSE <<Head(s)>> \o Insert(v, Tail(s))
RECURSIVE Sort(_)
Sort(s) == IF s = <<>> THEN <<>> ELSE Insert(Head(s), Sort(Tail(s)))

\* ------------------------------------------------------------- big integers

\* limb size of the [hi, lo] integers
LIMB == Pow2(24)

BigZero == [hi |-> 0, lo |-> 0]
BigNorm(hi, lo) == [hi |-> hi + (lo \div LIMB), lo |-> lo % LIMB]
BigAdd(a, b) == BigNorm(a.hi + b.hi, a.lo + b.lo)
\* 2 ** e
BigPow2(e) == IF e < 24 THEN [hi |-> 0, lo |-> Pow2(e)]
              ELSE [hi |-> Pow2(e - 24), lo |-> 0]
\* v * p for a byte v and a power of two p
BigScale(v, p) == BigNorm(v * p.hi, v * p.lo)
\* the value as a position in a small in-memory buffer: anything that does
\* not fit one limb lies beyond its end
BigIsSmall(a) == a.hi = 0

\* ------------------------------------------------------------- offset codec

\* sum(((v & 0xff) * 2 ** (i * 8) for i, v in enumerate(iterbytes(buffer))));
\* position k of the sequence is enumerate's i = k - 1
RECURSIVE SumFrom(_, _)
SumFrom(buf, k) ==
    IF k > Len(buf) THEN BigZero
    ELSE BigAdd(BigScale(buf[k] % 256, BigPow2((k - 1) * 8)), SumFrom(buf, k + 1))

\* faulty variant: the bytes weighted most-significant first
RECURSIVE SumFromBE(_, _)
SumFromBE(buf, k) ==
    IF k > Len(buf) THEN BigZero
    ELSE BigAdd(BigScale(buf[k] % 256, BigPow2((Len(buf) - k) * 8)),
                SumFromBE(buf, k + 1))
buffer_to_offset_BE(buf) == SumFromBE(buf, 1)

buffer_to_offset(buf) == SumFrom(buf, 1)

\* ------------------------------------------------------------- text

DecChars == <<"0", "1", "2", "3", "4", "5", "6", "7", "8", "9">>
HexLower == DecChars \o <<"a", "b", "c", "d", "e", "f">>
HexUpper == DecChars \o <<"A", "B", "C", "D", "E", "F">>

\* what int() raises ValueError for
BadInt == NoneVal - 1

IsDec(c) == \E k \in 1..Len(DecChars) : DecChars[k] = c
IsHex(c) == \E k \in 1..Len(HexLower) : HexLower[k] = c \/ HexUpper[k] = c
DigitVal(c) == (CHOOSE k \in 1..Len(HexLower) : HexLower[k] = c \/ HexUpper[k] = c) - 1

RECURSIVE DigitsVal(_, _, _)
DigitsVal(s, base, acc) ==
    IF s = <<>> THEN acc ELSE DigitsVal(Tail(s), base, acc * base + DigitVal(Head(s)))

\* int(s)
IntDec(s) == IF s # <<>> /\ \A k \in 1..Len(s) : IsDec(s[k])
             THEN DigitsVal(s, 10, 0) ELSE BadInt
\* int(s, 16)
IntHex(s) == IF s # <<>> /\ \A k \in 1..Len(s) : IsHex(s[k])
             THEN DigitsVal(s, 16, 0) ELSE BadInt

\* s.lstrip(c)
RECURSIVE LStrip(_, _)
LStrip(s, c) == IF s # <<>> /\ Head(s) = c THEN LStrip(Tail(s), c) ELSE s

\* s.split(c): the sequence of the parts between the separators
RECURSIVE SplitAcc(_, _, _)
SplitAcc(s, c, cur) ==
    IF s = <<>> THEN <<cur>>
    ELSE IF Head(s) = c THEN <<cur>> \o SplitAcc(Tail(s), c, <<>>)
    ELSE SplitAcc(Tail(s), c, Append(cur, Head(s)))
Split(s, c) == SplitAcc(s, c, <<>>)

\* s.lower(), on the letters cache formats are written with
UpperChars == <<"P", "N", "G", "J", "E", "M", "I", "X", "D">>
LowerChars == <<"p", "n", "g", "j", "e", "m", "i", "x", "d">>
LowerChar(c) == IF \E k \in 1..Len(UpperChars) : UpperChars[k] = c
                THEN LowerChars[CHOOSE k \in 1..Len(UpperChars) : UpperChars[k] = c]
                ELSE c
Lower(s) == [k \in 1..Len(s) |-> LowerChar(s[k])]

IsPrefix(p, s) == Len(p) <= Len(s) /\ SubSeq(s, 1, Len(p)) = p

\* s.replace(old, new)
RECURSIVE Replace(_, _, _)
Replace(s, old, new) ==
    IF s = <<>> THEN <<>>
    ELSE IF IsPrefix(old, s)
         THEN new \o Replace(SubSeq(s, Len(old) + 1, Len(s)), old, new)
    ELSE <<Head(s)>> \o Replace(Tail(s), old, new)

\* the text as one string
RECURSIVE Join(_)
Join(s) == IF s = <<>> THEN "" ELSE Head(s) \o Join(Tail(s))

\* str(v)
Str(v) == IF v = NoneVal THEN "None" ELSE ToString(v)

\* ------------------------------------------------------------- level of detail

\* The resolution of zoom level 0, WORLD_CIRCUMFERENCE / TILE_PIXEL_SIZE, in
\* the unit resolutions are written in here (1/256 of it), so that
\* WORLD_CIRCUMFERENCE / (res * TILE_PIXEL_SIZE) is ZOOM0_RES / res.
ZOOM0_RES == 256

\* int(round(math.log2(WORLD_CIRCUMFERENCE / (res * TILE_PIXEL_SIZE)))):
\* the z with 2^(z - 1/2) < ZOOM0_RES / res < 2^(z + 1/2), compared squared
web_tile_zoom_level_from_resolution(res) ==
    CHOOSE z \in 0..10 :
        LET p == res * Pow2(z)
        IN  /\ p <= 2 * ZOOM0_RES
            /\ 2 * p * p > ZOOM0_RES * ZOOM0_RES
            /\ p * p < 2 * ZOOM0_RES * ZOOM0_RES

\* the dict built by assigning vals[k] to keys[k] for k = 1, 2, ...: a later
\* assignment to the same key replaces the earlier one
DictOf(keys, vals) ==
    [key \in Range(keys) |->
        vals[SetMax({k \in 1..Len(keys) : keys[k] = key})]]

\* dict.get(key)
Get(dict, key) == IF key \in DOMAIN dict THEN dict[key] ELSE NoneVal

\* ------------------------------------------------------------- TPK.__init__

TPKInit(a) ==
    LET infos  == a.lodinfos
        levels == [k \in 1..Len(infos) |-> infos[k].LevelID]
        zooms  == [k \in 1..Len(infos) |->
                      web_tile_zoom_level_from_resolution(infos[k].Resolution)]
        ress   == [k \in 1..Len(infos) |-> infos[k].Resolution]
    IN  [ open                |-> TRUE,
          minrow              |-> MaxSize,
          maxrow              |-> 0,
          mincolumn           |-> MaxSize,
          maxcolumn           |-> 0,
          zoom_levels         |-> levels,
          web_tile_level_map  |-> DictOf(levels, zooms),
          resolution_map      |-> DictOf(zooms, ress),
          format              |-> a.format ]

\* the state of a sidecar file of the package: "ok", "missing", "malformed",
\* or which required element it lacks; a package that does not say is whole
Sidecar(a, name) == IF name \in DOMAIN a THEN a[name] ELSE "ok"

\* the exception the reading of the sidecars raises, in the order of lines
\* 120-160: conf.xml, esriinfo/iteminfo.xml, then mapserver.json
InitError(a) ==
    IF Sidecar(a, "conf") = "missing" THEN "IndexError"
    ELSE IF Sidecar(a, "conf") = "malformed" THEN "ParseError"
    ELSE IF Sidecar(a, "iteminfo") = "missing" THEN "KeyError"
    ELSE IF Sidecar(a, "iteminfo") = "malformed" THEN "ParseError"
    ELSE IF Sidecar(a, "iteminfo") \in {"no_title", "no_summary", "no_tags"}
         THEN "AttributeError"
    ELSE IF Sidecar(a, "mapserver") = "missing" THEN "KeyError"
    ELSE IF Sidecar(a, "mapserver") = "malformed" THEN "ValueError"
    ELSE "none"

\* no reader object: the name the caller would bind is unbound
NoTPK == [exists |-> FALSE]

\* TPK(filename): the ZipFile is opened first (line 100) and nothing closes
\* it when a later line raises; the reader, the ZipFile and the exception
TPK(a) ==
    [ r   |-> IF InitError(a) = "none" THEN TPKInit(a) ELSE NoTPK,
      fp  |-> "open",
      err |-> InitError(a) ]

\* TPK.close
Closed(r) == [r EXCEPT !.open = FALSE]

\* ------------------------------------------------------------- bundles

\* max_index = BUNDLE_DIM ** 2
MaxIndex == BUNDLE_DIM * BUNDLE_DIM

\* file.read(n) at position pos of an in-memory byte string: the bytes there
\* are, at most n of them
ReadBytes(blob, pos, n) ==
    IF pos >= Len(blob) THEN <<>> ELSE SubSeq(blob, pos + 1, Min(pos + n, Len(blob)))

\* bundle.read(n) for a decoded length n
ReadLength(blob, pos, n) == ReadBytes(blob, pos, IF BigIsSmall(n) THEN n.lo ELSE Len(blob))

\* read_tile: bundle.seek(offset); bundle.read(buffer_to_offset(bundle.read(4)))
read_tile(blob, off) ==
    IF ~BigIsSmall(off) THEN <<>>
    ELSE ReadLength(blob, off.lo + Len(ReadBytes(blob, off.lo, 4)),
                    buffer_to_offset(ReadBytes(blob, off.lo, 4)))

\* index_bytes[index * INDEX_SIZE:(index + 1) * INDEX_SIZE]
IndexSlice(idx, i) ==
    IF i >= idx.len THEN <<>>
    ELSE IF i \in DOMAIN idx.cells THEN idx.cells[i] ELSE idx.fill

\* the bytes read for cell i of bundle b (lines 256-261)
CellData(b, i) == read_tile(b.blob, buffer_to_offset(IndexSlice(b.index, i)))

\* the payload length declared for cell i: the 4 bytes at its offset
LengthAt(blob, off) ==
    IF BigIsSmall(off) THEN buffer_to_offset(ReadBytes(blob, off.lo, 4)) ELSE BigZero
CellLength(b, i) == LengthAt(b.blob, buffer_to_offset(IndexSlice(b.index, i)))

\* the cells of b for which `if data:` holds; the cells that share the fill
\* entry, and those past the end of the index, are decided together
NonEmptyCells(b) ==
    LET listed  == {i \in DOMAIN b.index.cells : i < MaxIndex}
        filled  == IF read_tile(b.blob, buffer_to_offset(b.index.fill)) # <<>>
                   THEN 0..(Min(b.index.len, MaxIndex) - 1) ELSE {}
        missing == IF read_tile(b.blob, buffer_to_offset(<<>>)) # <<>>
                   THEN b.index.len..(MaxIndex - 1) ELSE {}
    IN  {i \in listed \cup filled \cup missing : CellData(b, i) # <<>>}

\* ------------------------------------------------------------- packages

Entry(o) == <<o, 0, 0, 0, 0>>

\* a bundle data file: an empty record at 0, records at 4, 10 and 15, and at
\* 20 a record cut short by the end of the file (3 bytes declared, 1 stored)
Blob == << 0, 0, 0, 0,
           2, 0, 0, 0, 7, 8,
           1, 0, 0, 0, 9,
           1, 0, 0, 0, 5,
           3, 0, 0, 0, 6 >>

Index(cells) == [len |-> MaxIndex, fill |-> Entry(0), cells |-> cells]

Bundle(level, root, cells) ==
    [level |-> level, root |-> root, index |-> Index(cells), blob |-> Blob]

R0000C0000 == <<"R", "0", "0", "0", "0", "C", "0", "0", "0", "0">>
R0080C0000 == <<"R", "0", "0", "8", "0", "C", "0", "0", "0", "0">>
R0100C0000 == <<"R", "0", "1", "0", "0", "C", "0", "0", "0", "0">>
R0000C0080 == <<"R", "0", "0", "0", "0", "C", "0", "0", "8", "0">>
\* the directory of level n < 10: 'L%02d' % n
Level(n) == <<"L", "0", DecChars[n + 1]>>

PNG   == <<"P", "N", "G">>
JPEG  == <<"J", "P", "E", "G">>
MIXED == <<"M", "I", "X", "E", "D">>

LOD(id, res) == [LevelID |-> id, Resolution |-> res]

\* levels 0, 1, 2 at zooms 0, 1, 2
StandardPkg ==
    [ lodinfos |-> <<LOD(0, 256), LOD(1, 128), LOD(2, 64)>>,
      format   |-> PNG,
      bundles  |-> <<
        Bundle(Level(0), R0000C0000, (0 :> Entry(4))),
        Bundle(Level(1), R0000C0000, (0 :> Entry(10)) @@ (1 :> Entry(4)) @@ (129 :> Entry(15))),
        Bundle(Level(2), R0000C0000, (1 :> Entry(4)) @@ (4 :> Entry(10)) @@ (130 :> Entry(20))
                                 @@ (131 :> <<0, 0, 0, 0, 1>>)) >> ]

\* levels 0, 1, 2 at zooms 2, 3, 4
NonStandardPkg ==
    [ lodinfos |-> <<LOD(0, 64), LOD(1, 32), LOD(2, 16)>>,
      format   |-> PNG,
      bundles  |-> <<
        Bundle(Level(0), R0000C0000, (2 :> Entry(4)) @@ (130 :> Entry(10))),
        Bundle(Level(1), R0000C0000, (132 :> Entry(15)) @@ (261 :> Entry(4))),
        Bundle(Level(2), R0000C0000, (16 :> Entry(10)) @@ (264 :> Entry(4))
                                 @@ (265 :> Entry(15))) >> ]

\* a package of mixed raster format
MixedPkg ==
    [ lodinfos |-> <<LOD(0, 256), LOD(1, 128)>>,
      format   |-> MIXED,
      bundles  |-> <<
        Bundle(Level(0), R0000C0000, (0 :> Entry(4))),
        Bundle(Level(1), R0000C0000, (0 :> Entry(10)) @@ (1 :> Entry(15))) >> ]

\* two levels whose resolutions differ by less than one zoom step
CloseResPkg ==
    [ lodinfos |-> <<LOD(0, 64), LOD(1, 60)>>,
      format   |-> JPEG,
      bundles  |-> <<
        Bundle(Level(0), R0000C0000, (1 :> Entry(4))),
        Bundle(Level(1), R0000C0000, (2 :> Entry(10))) >> ]

\* one level, numbered 3, at zoom 8, in bundles of several origins; the
\* bundle at row 256 lies outside the zoom's range
DeepPkg ==
    [ lodinfos |-> <<LOD(3, 1)>>,
      format   |-> JPEG,
      bundles  |-> <<
        Bundle(Level(3), R0000C0000, (3 :> Entry(4))),
        Bundle(Level(3), R0100C0000, (0 :> Entry(10))),
        Bundle(Level(3), R0080C0000, (0 :> Entry(15)) @@ (129 :> Entry(4))),
        Bundle(Level(3), R0000C0080, (129 :> Entry(10))) >> ]

\* a bundle data file that starts with a record of one byte, as a data file
\* starts with its header; an empty record at 5 and a record at 9
HeaderBlob == << 1, 0, 0, 0, 3,
                 0, 0, 0, 0,
                 2, 0, 0, 0, 7, 8 >>

\* one level at zoom 8 whose index file lacks its last two entries
ShortIndexPkg ==
    [ lodinfos |-> <<LOD(0, 1)>>,
      format   |-> PNG,
      bundles  |-> <<
        [ level |-> Level(0), root |-> R0000C0000,
          index |-> [len |-> MaxIndex - 2, fill |-> Entry(5), cells |-> (0 :> Entry(9))],
          blob  |-> HeaderBlob ] >> ]

Packages == {StandardPkg, NonStandardPkg, MixedPkg, CloseResPkg, DeepPkg, ShortIndexPkg}

\* names of bundle files: four hex digits for the row and for the column, in
\* upper or lower case, the digit C among them; a doubled R; no separator
BundleNames ==
    { R0080C0000,
      <<"R", "0", "0", "a", "0", "C", "0", "0", "e", "0">>,
      <<"R", "0", "0", "0", "0", "C", "0", "0", "C", "0">>,
      <<"R", "0", "0", "0", "0", "C", "0", "0", "c", "0">>,
      <<"R", "R", "0", "0", "0", "0", "C", "0", "0", "0", "0">>,
      <<"R", "0", "0", "0", "0", "X", "0", "0", "0", "0">> }
\* names of level directories: L00, and one with a doubled L
LevelNames == { Level(0), <<"L", "L", "0", "0">> }

\* one level, numbered 0, at zoom 8, and one bundle under the names given
NamedPkg(level, root) ==
    [ lodinfos |-> <<LOD(0, 1)>>,
      format   |-> PNG,
      bundles  |-> << Bundle(level, root, (0 :> Entry(4)) @@ (1 :> Entry(10))) >> ]
NamedPackages == {NamedPkg(level, root) : level \in LevelNames, root \in BundleNames}

\* NonEmptyCells, worked out once for each bundle of the packages
AllBundles == UNION {Range(p.bundles) : p \in Packages \cup NamedPackages}
NonEmptyCellsOf == [b \in AllBundles |-> NonEmptyCells(b)]

\* the first index >= from at which the while loop finds data, or None
MinOrNone(S) == IF S = {} THEN NoneVal ELSE SetMin(S)
NextCell(b, from) == MinOrNone({i \in NonEmptyCellsOf[b] : i >= from})

\* ------------------------------------------------------------- read_tiles

\* A zoom argument: None, an int, or a list of ints
ZNone     == [kind |-> "none", v |-> <<>>]
ZInt(z)   == [kind |-> "int", v |-> <<z>>]
ZList(zs) == [kind |-> "list", v |-> zs]

Tile(z, x, y, data) == [z |-> z, x |-> x, y |-> y, data |-> data]

\* int(name.split('/')[-2].lstrip('L')), the number of the bundle's directory
LevelOfName(b) == IntDec(LStrip(b.level, "L"))

\* zoom is None or z in zoom (line 230), zoom an int taken as [zoom]
Selects(r, zoom, b) == zoom.kind = "none" \/ LevelOfName(b) \in Range(zoom.v)

\* the generator object read_tiles returns; no line of its body has run
NewGen(zoom, highest_zoom, flip_y) ==
    [ pc           |-> "new",       \* new, suspended (at the yield), done, raised
      zoom         |-> zoom,
      highest_zoom |-> highest_zoom,
      flip_y       |-> flip_y,
      bundles      |-> <<>>,        \* positions in the archive of the bundles kept
      bpos         |-> 0,           \* position in `bundles` of the one being read
      index        |-> 0,           \* the index the while loop looks at next
      z            |-> NoneVal,
      r_off        |-> 0,
      c_off        |-> 0,
      discarded    |-> 0,
      err          |-> "none",
      out          |-> <<>> ]       \* the tiles yielded so far

NoGen == [NewGen(ZNone, NoneVal, FALSE) EXCEPT !.pc = "absent"]

Raise(r, g, e) == [r |-> r, g |-> [g EXCEPT !.pc = "raised", !.err = e]]

\* faulty variant: the flip applied whatever flip_y is
FlipRowAlways(flip_y, max_row_col, y) == max_row_col - y

\* lines 270-271
FlipRow(flip_y, max_row_col, y) == IF flip_y THEN max_row_col - y ELSE y

\* faulty variant: the row checked against the next level's range
InRangeWide(x, y, max_row_col) ==
    (0 <= x /\ x <= max_row_col) /\ (0 <= y /\ y <= 2 * max_row_col + 1)

\* line 269
InRange(x, y, max_row_col) ==
    (0 <= x /\ x <= max_row_col) /\ (0 <= y /\ y <= max_row_col)

\* faulty variant: column and row taken from the other parts of the index
CellColRowSwapped(index) == [col |-> index % BUNDLE_DIM, row |-> index \div BUNDLE_DIM]

\* faulty variant: the column taken as the row is, with %
CellColRowMod(index) == [col |-> index % BUNDLE_DIM, row |-> index % BUNDLE_DIM]

\* lines 264-266: col = floor(index / BUNDLE_DIM), row = index % BUNDLE_DIM
CellColRow(index) == [col |-> index \div BUNDLE_DIM, row |-> index % BUNDLE_DIM]

\* lines 273-279
Track(r, g, x, y) ==
    IF g.z = g.highest_zoom
    THEN [r EXCEPT !.mincolumn = Min(r.mincolumn, x),
                   !.maxcolumn = Max(r.maxcolumn, x),
                   !.minrow    = Min(r.minrow, y),
                   !.maxrow    = Max(r.maxrow, y)]
    ELSE r

RECURSIVE ScanCells(_, _, _)
RECURSIVE EnterBundle(_, _, _)

\* lines 262-284 for the cell at index i, found to hold `data`, at column x
\* and row y: the tile is yielded, or counted as discarded and the loop goes on
EmitCell(a, r, g, i, data, x, y, max_row_col) ==
    IF InRange(x, y, max_row_col)
    THEN [ r |-> Track(r, g, x, FlipRow(g.flip_y, max_row_col, y)),
           g |-> [g EXCEPT !.pc = "suspended", !.index = i + 1,
                           !.out = Append(g.out, Tile(g.z, x, FlipRow(g.flip_y, max_row_col, y), data))] ]
    ELSE ScanCells(a, r, [g EXCEPT !.index = i + 1, !.discarded = g.discarded + 1])

ScanFrom(a, r, g, b, i) ==
    IF i = NoneVal THEN EnterBundle(a, r, [g EXCEPT !.bpos = g.bpos + 1])
    ELSE EmitCell(a, r, g, i, CellData(b, i),
                  g.c_off + CellColRow(i).col, g.r_off + CellColRow(i).row,
                  Pow2(g.z) - 1)

\* the while loop (lines 255-286) of the bundle at g.bpos, from g.index on,
\* up to the next yield; then the next bundle
ScanCells(a, r, g) ==
    ScanFrom(a, r, g, a.bundles[g.bundles[g.bpos]],
             NextCell(a.bundles[g.bundles[g.bpos]], g.index))

\* faulty variant: the archive read whether open or not
ReadEntryAlways(r) == "ok"

\* self._fp.read(name) (lines 250, 252): ZipFile.read raises ValueError on a
\* closed archive
ReadEntry(r) == IF ~r.open THEN "ValueError" ELSE "ok"

ParseBundle(a, r, g, parts, level, z) ==
    IF Len(parts) # 2 THEN Raise(r, g, "ValueError")
    ELSE IF IntHex(parts[1]) = BadInt \/ IntHex(parts[2]) = BadInt
         THEN Raise(r, g, "ValueError")
    ELSE IF level = BadInt THEN Raise(r, g, "ValueError")
    ELSE IF z = NoneVal THEN Raise(r, g, "TypeError")
    ELSE IF ReadEntry(r) # "ok" THEN Raise(r, g, ReadEntry(r))
    ELSE ScanCells(a, r, [g EXCEPT !.index = 0, !.z = z,
                                   !.r_off = IntHex(parts[1]),
                                   !.c_off = IntHex(parts[2])])

\* lines 233-254: the bundle at g.bpos is parsed (its row and column offsets,
\* its level, the level's zoom) and read, or the loop over the bundles ends
EnterBundle(a, r, g) ==
    IF g.bpos > Len(g.bundles) THEN [r |-> r, g |-> [g EXCEPT !.pc = "done"]]
    ELSE ParseBundle(a, r, g,
                     Split(LStrip(a.bundles[g.bundles[g.bpos]].root, "R"), "C"),
                     LevelOfName(a.bundles[g.bundles[g.bpos]]),
                     Get(r.web_tile_level_map, LevelOfName(a.bundles[g.bundles[g.bpos]])))

\* lines 222-231: the first next() builds the list of bundles
SelectBundles(a, r, g) ==
    IF \E k \in 1..Len(a.bundles) : LevelOfName(a.bundles[k]) = BadInt
    THEN Raise(r, g, "ValueError")
    ELSE EnterBundle(a, r, [g EXCEPT
            !.bundles = SortedSeq({k \in 1..Len(a.bundles) : Selects(r, g.zoom, a.bundles[k])}),
            !.bpos = 1])

\* next(g): the generator runs to its next yield, to its end, or raises;
\* resumed after its end it stays ended
Resume(a, r, g) ==
    IF g.pc = "new" THEN SelectBundles(a, r, g)
    ELSE IF g.pc = "suspended" THEN ScanCells(a, r, g)
    ELSE [r |-> r, g |-> g]

\* the generator consumed to its end: list(g), filter(f, g), for tile in g
RECURSIVE DrainFrom(_, _)
DrainFrom(a, n) ==
    IF n.g.pc \in {"done", "raised"} THEN n ELSE DrainFrom(a, Resume(a, n.r, n.g))
Drain(a, r, g) == DrainFrom(a, [r |-> r, g |-> g])

\* ------------------------------------------------------------- tile hashes

\* EMPTY_TILES (lines 41-46) and TRANSPARENT_TILES (line 49)
EMPTY_TILES == { "4ae57bed2b996ae0bd820a1b36561e26ef6d1bc8",
                 "aba7a74e3b932e32bdb21d670a16a08a9460591a",
                 "89eff69bee598f8c3217ca5363c2ef356fd0c394",
                 "147ca8bf480d89b17921e24e3c09edcf1cb2228b" }
TRANSPARENT_TILES == "147ca8bf480d89b17921e24e3c09edcf1cb2228b"

\* hashlib.sha1(data).hexdigest(): the payload <<9>> stands for a blank PNG,
\* <<5>> for the fully transparent PNG; no other payload of the packages
\* hashes to a listed digest
Sha1(data) ==
    IF data = <<9>> THEN "aba7a74e3b932e32bdb21d670a16a08a9460591a"
    ELSE IF data = <<5>> THEN "147ca8bf480d89b17921e24e3c09edcf1cb2228b"
    ELSE "da39a3ee5e6b4b0d3255bfef95601890afd80709"

\* ------------------------------------------------------------- file system

MbtilesSuffix == <<".", "m", "b", "t", "i", "l", "e", "s">>
OutName == <<"o", "u", "t">>
OutMbtilesName == OutName \o MbtilesSuffix
FileNames == {OutName, OutMbtilesName}

EndsWith(s, suffix) ==
    Len(suffix) <= Len(s) /\ SubSeq(s, Len(s) - Len(suffix) + 1, Len(s)) = suffix

NoMeta == [set |-> FALSE, minzoom |-> "", maxzoom |-> "", format |-> "",
           center_zoom |-> NoneVal, bounds |-> [kind |-> "none"]]
NoFile == [exists |-> FALSE, foreign |-> FALSE, tiles |-> <<>>, meta |-> NoMeta]
\* a file some other program left at the name
ForeignFile == [NoFile EXCEPT !.exists = TRUE, !.foreign = TRUE]
\* the file MBtiles(filename, 'w') leaves: any earlier file removed, the
\* tables created and empty
FreshFile == [NoFile EXCEPT !.exists = TRUE]

NoDir == [exists |-> FALSE, entries |-> <<>>]
EmptyDir == [exists |-> TRUE, entries |-> <<>>]
ForeignDir == [exists |-> TRUE, entries |-> ("test.txt" :> <<70, 111, 111>>)]

\* ------------------------------------------------------------- to_mbtiles

JpegChars == <<"j", "p", "e", "g">>
JpgChars == <<"j", "p", "g">>
MixedChars == <<"m", "i", "x", "e", "d">>

\* zoom = list(zoom); zoom.sort() after the None and int cases (lines 316-324)
ZoomList(r, zoom) == Sort(IF zoom.kind = "none" THEN r.zoom_levels ELSE zoom.v)

\* calculate_bounds (lines 363-389), kept as the extent it converts
calculate_bounds(r, highest_zoom) ==
    [ kind |-> "tiles", zoom |-> highest_zoom,
      mincolumn |-> r.mincolumn, maxcolumn |-> r.maxcolumn,
      minrow |-> r.minrow, maxrow |-> r.maxrow ]

\* faulty variant: the format accepted whatever it is
CheckFormatNone(ext) == "ok"

\* lines 309-310 and 414-416
CheckFormat(ext) == IF ext = MixedChars THEN "ValueError" ELSE "ok"

\* faulty variant: 'jpeg' left as it is
ExtOfLower(format) == Lower(format)

\* self.format.lower().replace('jpeg', 'jpg')
ExtOf(format) == Replace(Lower(format), JpegChars, JpgChars)
\* s[:3]
First3(s) == SubSeq(s, 1, Min(3, Len(s)))

\* lines 335-360: the bounds, the center and the metadata, for the zooms
\* zmin and zmax of the first and last level asked for
WriteMeta(r, fs, target, calc_bounds, highest_zoom, zmin, zmax) ==
    IF calc_bounds /\ Get(r.resolution_map, highest_zoom) = NoneVal
    THEN [r |-> r, fs |-> fs, err |-> "TypeError"]
    ELSE IF zmin = NoneVal \/ zmax = NoneVal
    THEN [r |-> r, fs |-> fs, err |-> "TypeError"]
    ELSE [ r   |-> r,
           err |-> "none",
           fs  |-> [fs EXCEPT ![target].meta =
                    [ set         |-> TRUE,
                      minzoom     |-> Str(zmin),
                      maxzoom     |-> Str(zmax),
                      format      |-> Join(First3(ExtOf(r.format))),
                      center_zoom |-> Max(zmin, (zmin + zmax) \div 2),
                      bounds      |-> IF calc_bounds
                                      THEN calculate_bounds(r, highest_zoom)
                                      ELSE [kind |-> "declared"] ]] ]

\* line 330
keep_tile(drop_transparent, t) ==
    ~(drop_transparent /\ Sha1(t.data) = TRANSPARENT_TILES)

\* line 332, `read` being read_tiles consumed to its end: the tiles kept are
\* written in one transaction, none of them if read_tiles raised
WriteRead(fs, target, calc_bounds, drop_transparent, zs, zoom_map, highest_zoom, read) ==
    IF read.g.pc = "raised"
    THEN [r |-> read.r, fs |-> fs, err |-> read.g.err]
    ELSE WriteMeta(read.r,
                   [fs EXCEPT ![target].tiles =
                        SelectSeq(read.g.out, LAMBDA t : keep_tile(drop_transparent, t))],
                   target, calc_bounds, highest_zoom,
                   Get(zoom_map, zs[1]), Get(zoom_map, zs[Len(zs)]))

\* lines 315-332 for the sorted list zs of the levels asked for
WriteZooms(a, r, fs, target, calc_bounds, drop_transparent, zs, highest_zoom) ==
    WriteRead(fs, target, calc_bounds, drop_transparent, zs, r.web_tile_level_map,
              highest_zoom, Drain(a, r, NewGen(ZList(zs), highest_zoom, TRUE)))

OpenAndWrite(a, r, fs, target, calc_bounds, drop_transparent, zs) ==
    IF zs = <<>> THEN [r |-> r, fs |-> [fs EXCEPT ![target] = FreshFile], err |-> "IndexError"]
    ELSE WriteZooms(a, r, [fs EXCEPT ![target] = FreshFile], target, calc_bounds,
                    drop_transparent, zs, Get(r.web_tile_level_map, zs[Len(zs)]))

\* lines 312-313: the suffix '.mbtiles' is added to a name that lacks it
TargetName(filename) ==
    IF EndsWith(filename, MbtilesSuffix) THEN filename ELSE filename \o MbtilesSuffix

\* to_mbtiles(filename, calc_bounds, drop_transparent, zoom) on reader r of
\* archive a with the files fs: the reader, the files and the exception left
to_mbtiles(a, r, fs, filename, calc_bounds, drop_transparent, zoom) ==
    IF CheckFormat(Lower(r.format)) # "ok"
    THEN [r |-> r, fs |-> fs, err |-> CheckFormat(Lower(r.format))]
    ELSE OpenAndWrite(a, r, fs, TargetName(filename),
                      calc_bounds, drop_transparent, ZoomList(r, zoom))

\* ------------------------------------------------------------- to_disk

XYZ == "xyz"
ARCGIS == "arcgis"

\* the default path_format, '{z}/{x}/{y}.{ext}', in its literal and field parts
DefaultPathFormat == <<"{z}", "/", "{x}", "/", "{y}", ".", "{ext}">>

\* path_format.format(z=..., x=..., y=..., ext=...)
RECURSIVE FormatPath(_, _, _)
FormatPath(fmt, t, ext) ==
    IF fmt = <<>> THEN ""
    ELSE (IF Head(fmt) = "{z}" THEN Str(t.z)
          ELSE IF Head(fmt) = "{x}" THEN Str(t.x)
          ELSE IF Head(fmt) = "{y}" THEN Str(t.y)
          ELSE IF Head(fmt) = "{ext}" THEN ext
          ELSE Head(fmt)) \o FormatPath(Tail(fmt), t, ext)

\* lines 435-445: one file per tile kept, a later tile of the same name
\* replacing an earlier one
RECURSIVE WriteTiles(_, _, _, _, _)
WriteTiles(entries, tiles, drop_empty, fmt, ext) ==
    IF tiles = <<>> THEN entries
    ELSE IF drop_empty /\ Sha1(Head(tiles).data) \in EMPTY_TILES
         THEN WriteTiles(entries, Tail(tiles), drop_empty, fmt, ext)
    ELSE WriteTiles((FormatPath(fmt, Head(tiles), ext) :> Head(tiles).data) @@ entries,
                    Tail(tiles), drop_empty, fmt, ext)

\* lines 427-445, `read` being read_tiles consumed as far as it went
WriteDir(d, read, drop_empty, path_format, ext) ==
    [ r   |-> read.r,
      err |-> read.g.err,
      d   |-> [exists |-> TRUE,
               entries |-> WriteTiles(d.entries, read.g.out, drop_empty, path_format, ext)] ]

\* faulty variant: the test of the directory's contents left out
CheckDirNone(d) == "ok"

\* lines 422-425: the directory is made, or must be empty
CheckDir(d) == IF d.exists /\ DOMAIN d.entries # {} THEN "IOError" ELSE "ok"

\* faulty variant: any scheme accepted
CheckSchemeNone(scheme) == "ok"

\* lines 418-419
CheckScheme(scheme) == IF scheme \notin {XYZ, ARCGIS} THEN "ValueError" ELSE "ok"

\* to_disk(path, zoom, scheme, drop_empty, path_format) on reader r of archive
\* a, d the directory at path: the reader, the directory and the exception left
to_disk(a, r, d, zoom, scheme, drop_empty, path_format) ==
    IF CheckFormat(ExtOf(r.format)) # "ok"
    THEN [r |-> r, d |-> d, err |-> CheckFormat(ExtOf(r.format))]
    ELSE IF CheckScheme(scheme) # "ok" THEN [r |-> r, d |-> d, err |-> CheckScheme(scheme)]
    ELSE IF CheckDir(d) # "ok" THEN [r |-> r, d |-> d, err |-> CheckDir(d)]
    ELSE WriteDir(d, Drain(a, r, NewGen(ZList(ZoomList(r, zoom)), NoneVal, scheme = XYZ)),
                  drop_empty, path_format, Join(First3(ExtOf(r.format))))

\* ------------------------------------------------------------- tpkutils.mbtiles

\* the MBtiles object: its connection ("none", "open", "closed"), the rows of
\* the map table that are committed, those inserted in the transaction that
\* is open, whether one is open, and whether the metadata was set
NoDb == [conn |-> "none", rows |-> <<>>, pending |-> <<>>, in_tx |-> FALSE, meta |-> FALSE]

\* MBtiles(filename, 'w') (lines 26-47): a connection in autocommit mode
\* (isolation_level=None) with journal_mode=OFF, and the empty tables
FreshDb == [NoDb EXCEPT !.conn = "open"]

\* what a tile iterable gives at one step: a tile, whose INSERT succeeds or
\* raises a db.Error, or an exception of its own
TileItem(t, ok) == [kind |-> "tile", tile |-> t, ok |-> ok]
RaiseItem == [kind |-> "raise", tile |-> NoneVal, ok |-> FALSE]

\* db.commit(), COMMIT
Commit(d) == [d EXCEPT !.rows = d.rows \o d.pending, !.pending = <<>>, !.in_tx = FALSE]

\* ROLLBACK (line 117) under journal_mode=OFF (line 41): without a rollback
\* journal SQLite leaves its effect undefined; any number of the rows
\* inserted may stay
Rollback(d) ==
    { [d EXCEPT !.rows = d.rows \o SubSeq(d.pending, 1, k), !.pending = <<>>, !.in_tx = FALSE] :
        k \in 0..Len(d.pending) }

\* lines 99-111: the rows inserted until the iterable ends ("done"), an
\* INSERT raises ("db_error") or the iterable raises ("iter_error")
RECURSIVE InsertAll(_, _)
InsertAll(tiles, inserted) ==
    IF tiles = <<>> THEN [pending |-> inserted, status |-> "done"]
    ELSE IF Head(tiles).kind = "raise" THEN [pending |-> inserted, status |-> "iter_error"]
    ELSE IF ~Head(tiles).ok THEN [pending |-> inserted, status |-> "db_error"]
    ELSE InsertAll(Tail(tiles), Append(inserted, Head(tiles).tile))

\* lines 113-117 for the outcome of the loop: the objects add_tiles may
\* leave, each with the exception that leaves add_tiles
EndBatch(d, res) ==
    IF res.status = "done"
    THEN {[db |-> Commit([d EXCEPT !.pending = res.pending]), err |-> "none"]}
    ELSE IF res.status = "db_error"
    THEN {[db |-> x, err |-> "none"] : x \in Rollback([d EXCEPT !.pending = res.pending])}
    ELSE {[db |-> [d EXCEPT !.pending = res.pending], err |-> "ValueError"]}

\* add_tiles(tiles) (lines 88-117); BEGIN raises inside a transaction
add_tiles(d, tiles) ==
    IF d.conn # "open" THEN {[db |-> d, err |-> "ProgrammingError"]}
    ELSE IF d.in_tx THEN {[db |-> d, err |-> "OperationalError"]}
    ELSE EndBatch([d EXCEPT !.in_tx = TRUE], InsertAll(tiles, <<>>))

\* add_tile(z, x, y, data) (lines 55-86): the INSERT joins the transaction
\* that is open, if any, and db.commit() commits it
add_tile(d, item) ==
    IF d.conn # "open" THEN [db |-> d, err |-> "ProgrammingError"]
    ELSE IF ~item.ok THEN [db |-> d, err |-> "IntegrityError"]
    ELSE [db |-> Commit([d EXCEPT !.pending = Append(d.pending, item.tile)]), err |-> "none"]

\* set_metadata(metadata) (lines 119-133)
set_metadata(d) ==
    IF d.conn # "open" THEN [db |-> d, err |-> "ProgrammingError"]
    ELSE [db |-> [Commit(d) EXCEPT !.meta = TRUE], err |-> "none"]

\* close() (lines 135-143): VACUUM raises inside a transaction, before
\* cursor.close() and db.close()
close(d) ==
    IF d.conn # "open" THEN [db |-> d, err |-> "ProgrammingError"]
    ELSE IF d.in_tx THEN [db |-> d, err |-> "OperationalError"]
    ELSE [db |-> [d EXCEPT !.conn = "closed"], err |-> "none"]

\* ------------------------------------------------------------- command line

\* an option that takes a text: absent, or given with the text
NoOpt == [given |-> FALSE, text |-> <<>>]
Opt(text) == [given |-> TRUE, text |-> text]

\* [int(v) for v in zoom.split(',')]; <<BadInt>> stands for the ValueError
ParseZoom(text) ==
    LET parts == Split(text, ",")
        ints  == [k \in 1..Len(parts) |-> IntDec(parts[k])]
    IN  IF \E k \in 1..Len(parts) : ints[k] = BadInt THEN <<BadInt>> ELSE ints

ExitOf(err) == IF err = "none" THEN 0 ELSE 1

CliResult(res) == [fs |-> res.fs, exit_code |-> ExitOf(res.err), err |-> res.err, msg |-> ""]

\* the command `export mbtiles` (cli.py lines 45-64). The reader is the
\* command's own; to_mbtiles is called as tpk.to_mbtiles(mbtiles_filename,
\* zoom), so that the parsed list arrives as its second parameter,
\* calc_bounds, tested there for truth, and its zoom parameter keeps its default
mbtiles(a, fs, mbtiles_filename, zoom, overwrite) ==
    IF fs[mbtiles_filename].exists /\ ~overwrite
    THEN [fs |-> fs, exit_code |-> 1, err |-> "ClickException",
          msg |-> "Output exists and overwrite is false. Use --overwrite option to overwrite"]
    ELSE IF zoom.given /\ ParseZoom(zoom.text) = <<BadInt>>
    THEN [fs |-> fs, exit_code |-> 1, err |-> "ValueError", msg |-> ""]
    ELSE CliResult(to_mbtiles(a, TPKInit(a), fs, mbtiles_filename,
                              zoom.given /\ ParseZoom(zoom.text) # <<>>, FALSE, ZNone))

CliDiskResult(res) == [d |-> res.d, exit_code |-> ExitOf(res.err), err |-> res.err, msg |-> ""]

\* the command `export disk` (cli.py lines 89-139), without --preview
disk(a, d, zoom, scheme, drop_empty, path_format) ==
    IF d.exists /\ DOMAIN d.entries # {}
    THEN [d |-> d, exit_code |-> 1, err |-> "ClickException",
          msg |-> "Output directory must be empty."]
    ELSE IF zoom.given /\ ParseZoom(zoom.text) = <<BadInt>>
    THEN [d |-> d, exit_code |-> 1, err |-> "ValueError", msg |-> ""]
    ELSE CliDiskResult(to_disk(a, TPKInit(a), d,
                               IF zoom.given THEN ZList(ParseZoom(zoom.text)) ELSE ZNone,
                               scheme, drop_empty, path_format))

\* ------------------------------------------------------------- inputs

\* zoom arguments of the calls made on the reader
ReadZooms == { ZNone, ZInt(0), ZInt(2), ZInt(3),
               ZList(<<0, 1>>), ZList(<<3, 2>>), ZList(<<>>) }
ExportZooms == { ZNone, ZInt(2), ZList(<<1, 0>>), ZList(<<2, 3>>), ZList(<<>>) }
\* --zoom options of the commands
ZoomOpts == { NoOpt, Opt(<<"0", ",", "1">>), Opt(<<"2">>) }
Schemes == {XYZ, ARCGIS, "bad"}
CliSchemes == {XYZ, ARCGIS}
PathFormats == {DefaultPathFormat}

\* ------------------------------------------------------------- state

NoCall ==
    [ op |-> "none", err |-> "none", exit_code |-> 0, msg |-> "",
      filename |-> <<>>, zoom |-> ZNone, zoomopt |-> NoOpt,
      calc_bounds |-> FALSE, drop |-> FALSE, scheme |-> "", overwrite |-> FALSE,
      batch |-> <<>> ]


InitIdle ==
    /\ gens = [f \in BOOLEAN |-> NoGen]
    /\ last = NoCall
    /\ buffer = <<>>
    /\ offset = BigZero
    /\ fp = "open"
    /\ db = NoDb

NoFiles == [n \in FileNames |-> NoFile]

\* ------------------------------------------------------------- actions

\* g = tpk.read_tiles(zoom, flip_y=f): a generator is made; an earlier one of
\* the same flip_y is dropped where it stands
ReadTiles(f, zoom) ==
    /\ gens' = [gens EXCEPT ![f] = NewGen(zoom, NoneVal, f)]
    /\ last' = [NoCall EXCEPT !.op = "read_tiles", !.zoom = zoom]
    /\ UNCHANGED <<archive, tpk, files, dirs, buffer, offset, fp, db>>

Resumed(f, n) ==
    /\ gens' = [gens EXCEPT ![f] = n.g]
    /\ tpk' = n.r
    /\ last' = [NoCall EXCEPT !.op = "next", !.zoom = gens[f].zoom, !.err = n.g.err]

\* next(g) on the generator of flip_y f
NextTile(f) ==
    /\ gens[f].pc \in {"new", "suspended"}
    /\ Resumed(f, Resume(archive, tpk, gens[f]))
    /\ UNCHANGED <<archive, files, dirs, buffer, offset, fp, db>>

\* tpk.close()
Close ==
    /\ tpk' = Closed(tpk)
    /\ fp' = "closed"
    /\ last' = [NoCall EXCEPT !.op = "close"]
    /\ UNCHANGED <<archive, gens, files, dirs, buffer, offset, db>>

Exported(res, call) ==
    /\ tpk' = res.r
    /\ files' = res.fs
    /\ last' = [call EXCEPT !.err = res.err, !.exit_code = 0]

\* tpk.to_mbtiles(filename, calc_bounds, drop_transparent, zoom)
ToMbtiles(filename, calc_bounds, drop_transparent, zoom) ==
    /\ Exported(to_mbtiles(archive, tpk, files, filename, calc_bounds, drop_transparent, zoom),
                [NoCall EXCEPT !.op = "to_mbtiles", !.filename = filename,
                               !.calc_bounds = calc_bounds, !.drop = drop_transparent,
                               !.zoom = zoom])
    /\ UNCHANGED <<archive, gens, dirs, buffer, offset, fp, db>>

ExportedDir(res, call) ==
    /\ tpk' = res.r
    /\ dirs' = res.d
    /\ last' = [call EXCEPT !.err = res.err, !.exit_code = 0]

\* tpk.to_disk(path, zoom, scheme, drop_empty, path_format)
ToDisk(zoom, scheme, drop_empty, path_format) ==
    /\ ExportedDir(to_disk(archive, tpk, dirs, zoom, scheme, drop_empty, path_format),
                   [NoCall EXCEPT !.op = "to_disk", !.zoom = zoom, !.scheme = scheme,
                                  !.drop = drop_empty])
    /\ UNCHANGED <<archive, gens, files, buffer, offset, fp, db>>

Commanded(res, call) ==
    /\ files' = res.fs
    /\ last' = [call EXCEPT !.err = res.err, !.exit_code = res.exit_code, !.msg = res.msg]

\* tpk export mbtiles <tpk> <filename> [--zoom LIST] [--overwrite]
CliMbtiles(filename, zoom, overwrite) ==
    /\ Commanded(mbtiles(archive, files, filename, zoom, overwrite),
                 [NoCall EXCEPT !.op = "cli_mbtiles", !.filename = filename,
                                !.zoomopt = zoom, !.overwrite = overwrite])
    /\ UNCHANGED <<archive, tpk, gens, dirs, buffer, offset, fp, db>>

CommandedDir(res, call) ==
    /\ dirs' = res.d
    /\ last' = [call EXCEPT !.err = res.err, !.exit_code = res.exit_code, !.msg = res.msg]

\* tpk export disk <tpk> <path> [--zoom LIST] [--scheme S] [--drop-empty]
CliDisk(zoom, scheme, drop_empty, path_format) ==
    /\ CommandedDir(disk(archive, dirs, zoom, scheme, drop_empty, path_format),
                    [NoCall EXCEPT !.op = "cli_disk", !.zoomopt = zoom, !.scheme = scheme,
                                   !.drop = drop_empty])
    /\ UNCHANGED <<archive, tpk, gens, files, buffer, offset, fp, db>>

\* offset = buffer_to_offset(buffer)
Decode ==
    /\ last.op = "none"
    /\ offset' = buffer_to_offset(buffer)
    /\ last' = [NoCall EXCEPT !.op = "buffer_to_offset"]
    /\ UNCHANGED <<archive, tpk, gens, files, dirs, buffer, fp, db>>

\* ------------------------------------------------------------- specifications

\* tiles read through the generators of an open, then closed, reader
InitRead ==
    /\ archive \in Packages
    /\ tpk = TPKInit(archive)
    /\ files = NoFiles
    /\ dirs = NoDir
    /\ InitIdle

NextRead ==
    \/ \E f \in BOOLEAN, zoom \in ReadZooms : ReadTiles(f, zoom)
    \/ \E f \in BOOLEAN : NextTile(f)
    \/ Close

SpecRead == InitRead /\ [][NextRead]_vars

\* exports to an mbtiles file, through the library and the command
InitMbtiles ==
    /\ archive \in Packages
    /\ tpk = TPKInit(archive)
    /\ files \in {NoFiles, [NoFiles EXCEPT ![OutMbtilesName] = ForeignFile]}
    /\ dirs = NoDir
    /\ InitIdle

NextMbtiles ==
    \/ \E filename \in FileNames, calc_bounds \in BOOLEAN, drop \in BOOLEAN,
          zoom \in ExportZooms : ToMbtiles(filename, calc_bounds, drop, zoom)
    \/ \E filename \in FileNames, zoom \in ZoomOpts, overwrite \in BOOLEAN :
          CliMbtiles(filename, zoom, overwrite)
    \/ Close

SpecMbtiles == InitMbtiles /\ [][NextMbtiles]_vars

\* exports to a directory, through the library and the command
InitDisk ==
    /\ archive \in Packages
    /\ tpk = TPKInit(archive)
    /\ files = NoFiles
    /\ dirs \in {NoDir, EmptyDir, ForeignDir}
    /\ InitIdle

NextDisk ==
    \/ \E zoom \in ExportZooms, scheme \in Schemes, drop \in BOOLEAN,
          fmt \in PathFormats : ToDisk(zoom, scheme, drop, fmt)
    \/ \E zoom \in ZoomOpts, scheme \in CliSchemes, drop \in BOOLEAN,
          fmt \in PathFormats : CliDisk(zoom, scheme, drop, fmt)
    \/ Close

SpecDisk == InitDisk /\ [][NextDisk]_vars

\* every export of a package of mixed format
InitMixed ==
    /\ archive \in {p \in Packages : Lower(p.format) = MixedChars}
    /\ tpk = TPKInit(archive)
    /\ files \in {NoFiles, [NoFiles EXCEPT ![OutMbtilesName] = ForeignFile]}
    /\ dirs \in {NoDir, EmptyDir, ForeignDir}
    /\ InitIdle

NextMixed ==
    \/ \E filename \in FileNames, calc_bounds \in BOOLEAN, drop \in BOOLEAN,
          zoom \in ExportZooms : ToMbtiles(filename, calc_bounds, drop, zoom)
    \/ \E zoom \in ExportZooms, scheme \in Schemes, drop \in BOOLEAN,
          fmt \in PathFormats : ToDisk(zoom, scheme, drop, fmt)
    \/ \E filename \in FileNames, zoom \in ZoomOpts, overwrite \in BOOLEAN :
          CliMbtiles(filename, zoom, overwrite)
    \/ \E zoom \in ZoomOpts, scheme \in CliSchemes, drop \in BOOLEAN,
          fmt \in PathFormats : CliDisk(zoom, scheme, drop, fmt)
    \/ Close

SpecMixed == InitMixed /\ [][NextMixed]_vars

\* the reader's life: reads through one generator while it is open and after
\* it is closed, and exports once it is closed
InitLife ==
    /\ archive \in Packages
    /\ tpk = TPKInit(archive)
    /\ files \in {NoFiles, [NoFiles EXCEPT ![OutMbtilesName] = ForeignFile]}
    /\ dirs = NoDir
    /\ InitIdle

NextLife ==
    \/ \E zoom \in ReadZooms : ReadTiles(FALSE, zoom)
    \/ NextTile(FALSE)
    \/ Close
    \/ ~tpk.open /\ \E zoom \in ExportZooms, calc_bounds \in BOOLEAN :
          ToMbtiles(OutName, calc_bounds, FALSE, zoom)
    \/ ~tpk.open /\ \E zoom \in ExportZooms, scheme \in {XYZ, ARCGIS} :
          ToDisk(zoom, scheme, FALSE, DefaultPathFormat)

SpecLife == InitLife /\ [][NextLife]_vars

\* zoom arguments of the reads that are made again: an int and the list of it
RestartZooms == { ZNone, ZInt(2), ZList(<<2>>), ZList(<<1, 0>>) }

\* reads made again on an open reader, between other reads, reads left
\* unfinished, and exports
InitRestart ==
    /\ archive \in Packages
    /\ tpk = TPKInit(archive)
    /\ files = NoFiles
    /\ dirs = NoDir
    /\ InitIdle

NextRestart ==
    \/ \E f \in BOOLEAN, zoom \in RestartZooms : ReadTiles(f, zoom)
    \/ \E f \in BOOLEAN : NextTile(f)
    \/ \E zoom \in {ZNone, ZInt(2)} : ToMbtiles(OutName, TRUE, FALSE, zoom)
    \/ ToDisk(ZNone, XYZ, FALSE, DefaultPathFormat)

SpecRestart == InitRestart /\ [][NextRestart]_vars

\* exports of either kind on one reader
InitExport ==
    /\ archive \in Packages
    /\ tpk = TPKInit(archive)
    /\ files = NoFiles
    /\ dirs = NoDir
    /\ InitIdle

NextExport ==
    \/ \E zoom \in ExportZooms : ToMbtiles(OutName, FALSE, FALSE, zoom)
    \/ \E zoom \in ExportZooms, scheme \in CliSchemes :
          ToDisk(zoom, scheme, FALSE, DefaultPathFormat)

SpecExport == InitExport /\ [][NextExport]_vars

\* packages with each sidecar whole, missing or malformed
SidecarStates ==
    [ conf      : {"ok", "missing", "malformed"},
      iteminfo  : {"ok", "missing", "malformed", "no_title", "no_summary", "no_tags"},
      mapserver : {"ok", "missing", "malformed"} ]
OpenPackages == {sc @@ p : sc \in SidecarStates, p \in Packages}

\* tpk = TPK(filename)
Open ==
    /\ tpk = NoTPK
    /\ tpk' = TPK(archive).r
    /\ fp' = TPK(archive).fp
    /\ last' = [NoCall EXCEPT !.op = "open", !.err = TPK(archive).err]
    /\ UNCHANGED <<archive, gens, files, dirs, buffer, offset, db>>

\* the object a failed TPK(filename) left behind is finalised, once nothing
\* refers to it any more: ZipFile.__del__ closes the file
Collect ==
    /\ tpk = NoTPK
    /\ fp = "open"
    /\ fp' = "closed"
    /\ last' = [NoCall EXCEPT !.op = "collect"]
    /\ UNCHANGED <<archive, tpk, gens, files, dirs, buffer, offset, db>>

\* the opening of a package
InitOpen ==
    /\ archive \in OpenPackages
    /\ tpk = NoTPK
    /\ files = NoFiles
    /\ dirs = NoDir
    /\ gens = [f \in BOOLEAN |-> NoGen]
    /\ last = NoCall
    /\ buffer = <<>>
    /\ offset = BigZero
    /\ fp = "none"
    /\ db = NoDb

NextOpen ==
    \/ Open
    \/ Collect
    \/ tpk # NoTPK /\ Close

SpecOpen == InitOpen /\ [][NextOpen]_vars

\* reads of packages whose bundle is named one way or another
InitNames ==
    /\ archive \in NamedPackages
    /\ tpk = TPKInit(archive)
    /\ files = NoFiles
    /\ dirs = NoDir
    /\ InitIdle

NextNames ==
    \/ \E f \in BOOLEAN, zoom \in {ZNone, ZInt(0)} : ReadTiles(f, zoom)
    \/ \E f \in BOOLEAN : NextTile(f)

SpecNames == InitNames /\ [][NextNames]_vars

\* the tiles handed to the MBtiles object and the length of a batch
SinkTiles == {Tile(0, 0, 0, <<7, 8>>), Tile(1, 0, 1, <<9>>)}
Items == {TileItem(t, ok) : t \in SinkTiles, ok \in BOOLEAN} \cup {RaiseItem}
Batches == UNION {[1..n -> Items] : n \in 0..MaxBatch}

Sunk(res, call) ==
    /\ db' = res.db
    /\ last' = [call EXCEPT !.err = res.err]
    /\ UNCHANGED <<archive, tpk, gens, files, dirs, buffer, offset, fp>>

\* mbtiles.add_tiles(tiles)
AddTiles(tiles) ==
    /\ Len(db.rows) + Len(db.pending) + Len(tiles) <= MaxRows
    /\ \E res \in add_tiles(db, tiles) :
          Sunk(res, [NoCall EXCEPT !.op = "add_tiles", !.batch = tiles])

\* mbtiles.add_tile(z, x, y, data)
AddTile(item) ==
    /\ Len(db.rows) + Len(db.pending) + 1 <= MaxRows
    /\ Sunk(add_tile(db, item), [NoCall EXCEPT !.op = "add_tile", !.batch = <<item>>])

\* mbtiles.set_metadata(metadata)
SetMetadata == Sunk(set_metadata(db), [NoCall EXCEPT !.op = "set_metadata"])

\* mbtiles.close()
CloseDb == Sunk(close(db), [NoCall EXCEPT !.op = "mbtiles_close"])

\* the calls made on an MBtiles object opened for writing
InitSink ==
    /\ archive = StandardPkg
    /\ tpk = TPKInit(archive)
    /\ files = NoFiles
    /\ dirs = NoDir
    /\ gens = [f \in BOOLEAN |-> NoGen]
    /\ last = NoCall
    /\ buffer = <<>>
    /\ offset = BigZero
    /\ fp = "open"
    /\ db = FreshDb

NextSink ==
    \/ \E tiles \in Batches : AddTiles(tiles)
    \/ \E item \in Items \ {RaiseItem} : AddTile(item)
    \/ SetMetadata
    \/ CloseDb

SpecSink == InitSink /\ [][NextSink]_vars

\* the offset codec on buffers of bounded length
ByteVals == {0, 1, 128, 255}

RECURSIVE SeqsUpTo(_, _)
SeqsUpTo(S, n) ==
    IF n = 0 THEN {<<>>}
    ELSE LET shorter == SeqsUpTo(S, n - 1)
         IN  shorter \cup {Append(s, v) : s \in {t \in shorter : Len(t) = n - 1}, v \in S}

Buffers == SeqsUpTo(ByteVals, MaxBufLen)

InitCodec ==
    /\ archive = StandardPkg
    /\ tpk = TPKInit(archive)
    /\ files = NoFiles
    /\ dirs = NoDir
    /\ gens = [f \in BOOLEAN |-> NoGen]
    /\ last = NoCall
    /\ buffer \in Buffers
    /\ offset = BigZero
    /\ fp = "open"
    /\ db = NoDb

NextCodec == Decode

SpecCodec == InitCodec /\ [][NextCodec]_vars

\* ------------------------------------------------------------- properties

\* the web zoom levels the package's levels of detail resolve to
ResolvedZooms(a) ==
    {web_tile_zoom_level_from_resolution(a.lodinfos[k].Resolution) : k \in 1..Len(a.lodinfos)}
ZoomsOf(tiles) == {tiles[k].z : k \in 1..Len(tiles)}
NotMixed(a) == Lower(a.format) # MixedChars
\* the file the last export wrote to
Written == files[TargetName(last.filename)]

\* C1: after to_mbtiles(zoom=Z) on an open reader of a package that is not of
\* mixed format, Z a non-empty list of zoom levels the package resolves to, the
\* file holds tiles only at zoom levels of Z, and its metadata has
\* minzoom = str(min Z) and maxzoom = str(max Z).
C1_FilteredExport ==
    ( /\ last.op = "to_mbtiles"
      /\ last.zoom.kind # "none"
      /\ last.zoom.v # <<>>
      /\ Range(last.zoom.v) \subseteq ResolvedZooms(archive)
      /\ NotMixed(archive)
      /\ tpk.open )
    => /\ ZoomsOf(Written.tiles) \subseteq Range(last.zoom.v)
       /\ Written.meta.minzoom = Str(SetMin(Range(last.zoom.v)))
       /\ Written.meta.maxzoom = Str(SetMax(Range(last.zoom.v)))

\* to_mbtiles(zoom=2) has returned on the package of levels 0, 1, 2 at zooms
\* 2, 3, 4, and the file holds tiles
C1_Reached ==
    /\ last.op = "to_mbtiles"
    /\ last.err = "none"
    /\ archive = NonStandardPkg
    /\ last.zoom = ZInt(2)
    /\ tpk.open
    /\ Written.tiles # <<>>

\* the positions in the archive of the bundles whose level resolves to a zoom
\* of the filter
BundlesAtZoom(a, zoom) ==
    {k \in 1..Len(a.bundles) :
        zoom.kind = "none"
        \/ Get(TPKInit(a).web_tile_level_map, LevelOfName(a.bundles[k])) \in Range(zoom.v)}

\* C2: read_tiles(zoom=Z) reads a bundle if and only if the web zoom its
\* L<LOD> directory resolves to is in Z (every bundle when Z is None), and
\* every tile it yields has tile.z in Z.
C2_FilterByResolvedZoom ==
    \A f \in BOOLEAN :
        /\ gens[f].pc \in {"suspended", "done"}
              => Range(gens[f].bundles) = BundlesAtZoom(archive, gens[f].zoom)
        /\ gens[f].zoom.kind # "none"
              => ZoomsOf(gens[f].out) \subseteq Range(gens[f].zoom.v)

\* read_tiles(zoom=2) has yielded a tile of the package of levels 0, 1, 2 at
\* zooms 2, 3, 4
C2_Reached ==
    /\ archive = NonStandardPkg
    /\ gens[FALSE].zoom = ZInt(2)
    /\ gens[FALSE].out # <<>>

\* C3: `export mbtiles <tpk> <out> --zoom LIST`, LIST a comma-separated list
\* of zoom levels of the package, not refused for an existing output, ends
\* with exit code 0, and the zoom levels of the tiles in the file written are
\* exactly those of LIST.
C3_CliZoomExport ==
    ( /\ last.op = "cli_mbtiles"
      /\ last.zoomopt.given
      /\ last.err # "ClickException"
      /\ NotMixed(archive)
      /\ Range(ParseZoom(last.zoomopt.text)) \subseteq ResolvedZooms(archive) )
    => /\ last.exit_code = 0
       /\ ZoomsOf(Written.tiles) = Range(ParseZoom(last.zoomopt.text))

\* `export mbtiles --zoom 0,1` has ended with exit code 0 on the package of
\* zooms 0, 1, 2
C3_Reached ==
    /\ last.op = "cli_mbtiles"
    /\ archive = StandardPkg
    /\ last.zoomopt = Opt(<<"0", ",", "1">>)
    /\ last.exit_code = 0
    /\ Written.tiles # <<>>

\* C4: for an int Z, read_tiles(zoom=Z, flip_y=True) and read_tiles(zoom=Z,
\* flip_y=False), both consumed to their end, yield the same number of tiles,
\* and their k-th tiles have the same zoom, column and data, the row of the
\* flipped one being (2^Z - 1) - the row of the other.
C4_FlipRelation ==
    ( /\ gens[TRUE].pc = "done"
      /\ gens[FALSE].pc = "done"
      /\ gens[TRUE].zoom = gens[FALSE].zoom
      /\ gens[TRUE].zoom.kind = "int" )
    => /\ Len(gens[TRUE].out) = Len(gens[FALSE].out)
       /\ \A k \in 1..Len(gens[TRUE].out) :
            /\ k <= Len(gens[FALSE].out)
            /\ gens[TRUE].out[k].z = gens[FALSE].out[k].z
            /\ gens[TRUE].out[k].x = gens[FALSE].out[k].x
            /\ gens[TRUE].out[k].data = gens[FALSE].out[k].data
            /\ gens[TRUE].out[k].y
                 = (Pow2(gens[TRUE].zoom.v[1]) - 1) - gens[FALSE].out[k].y

\* both reads of zoom=2 have ended on the package of levels 0, 1, 2 at zooms
\* 2, 3, 4, with tiles yielded
C4_Reached ==
    /\ archive = NonStandardPkg
    /\ gens[TRUE].pc = "done"
    /\ gens[FALSE].pc = "done"
    /\ gens[TRUE].zoom = ZInt(2)
    /\ gens[FALSE].zoom = ZInt(2)
    /\ gens[TRUE].out # <<>>
    /\ gens[FALSE].out # <<>>

\* the origin of a bundle whose name is well formed, and the zoom of its level
RowOffset(b) == IntHex(Split(LStrip(b.root, "R"), "C")[1])
ColumnOffset(b) == IntHex(Split(LStrip(b.root, "R"), "C")[2])
ZoomOfBundle(a, b) == Get(TPKInit(a).web_tile_level_map, LevelOfName(b))

\* every bundle is named R<hex>C<hex> in the directory of a level of the package
WellNamed(a) ==
    \A k \in 1..Len(a.bundles) :
        /\ Len(Split(LStrip(a.bundles[k].root, "R"), "C")) = 2
        /\ RowOffset(a.bundles[k]) # BadInt
        /\ ColumnOffset(a.bundles[k]) # BadInt
        /\ ZoomOfBundle(a, a.bundles[k]) \notin {NoneVal, BadInt}

\* column and row of cell i of bundle b in the grid of its zoom, and whether
\* they lie in [0, 2^zoom - 1]
CellColumn(b, i) == ColumnOffset(b) + (i \div 128)
CellRow(b, i) == RowOffset(b) + (i % 128)
CellInGrid(a, b, i) ==
    /\ 0 <= CellColumn(b, i) /\ CellColumn(b, i) <= Pow2(ZoomOfBundle(a, b)) - 1
    /\ 0 <= CellRow(b, i) /\ CellRow(b, i) <= Pow2(ZoomOfBundle(a, b)) - 1

\* the tile of cell i of bundle b carrying `data`, its row flipped or not
CellTile(a, b, i, flip, data) ==
    Tile(ZoomOfBundle(a, b), CellColumn(b, i),
         IF flip THEN (Pow2(ZoomOfBundle(a, b)) - 1) - CellRow(b, i) ELSE CellRow(b, i),
         data)

\* the tiles of the cells `cells` (ascending) of bundle b
RECURSIVE CellTiles(_, _, _, _)
CellTiles(a, b, cells, flip) ==
    IF cells = <<>> THEN <<>>
    ELSE <<CellTile(a, b, Head(cells), flip, CellData(b, Head(cells)))>>
         \o CellTiles(a, b, Tail(cells), flip)

\* the tiles of the bundles at positions ks (ascending): of each bundle, the
\* cells that hold data and lie in the grid, in the order of their index
RECURSIVE TilesInGrid(_, _, _)
TilesInGrid(a, ks, flip) ==
    IF ks = <<>> THEN <<>>
    ELSE CellTiles(a, a.bundles[Head(ks)],
                   SortedSeq({i \in NonEmptyCellsOf[a.bundles[Head(ks)]] :
                                 CellInGrid(a, a.bundles[Head(ks)], i)}),
                   flip)
         \o TilesInGrid(a, Tail(ks), flip)

\* C5: every tile read_tiles yields, flipped or not, has its column and its
\* row in [0, 2^zoom - 1]; on a package whose bundles are well named, a cell
\* that holds data outside that range raises nothing (read_tiles raises only
\* on a closed reader) and the read that reaches its end has yielded, in
\* order, every cell with data inside the range of every bundle it read, those
\* that follow a discarded cell included.
C5_RangeValidation ==
    \A f \in BOOLEAN :
        /\ \A k \in 1..Len(gens[f].out) :
              /\ 0 <= gens[f].out[k].x /\ gens[f].out[k].x <= Pow2(gens[f].out[k].z) - 1
              /\ 0 <= gens[f].out[k].y /\ gens[f].out[k].y <= Pow2(gens[f].out[k].z) - 1
        /\ (WellNamed(archive) /\ gens[f].pc = "raised") => ~tpk.open
        /\ (WellNamed(archive) /\ gens[f].pc = "done")
              => /\ gens[f].err = "none"
                 /\ gens[f].out = TilesInGrid(archive, gens[f].bundles, gens[f].flip_y)

\* a read has reached its end after a cell with data outside the range was
\* discarded, and the tile of a later cell of that bundle was yielded
C5_Reached ==
    /\ archive = StandardPkg
    /\ gens[TRUE].pc = "done"
    /\ gens[TRUE].discarded > 0
    /\ \E k \in 1..Len(gens[TRUE].out) : gens[TRUE].out[k] = Tile(2, 1, 1, <<6>>)

\* the index positions looked at: those the index lists an entry of its own
\* for, the first and last of those that hold the common entry, and those
\* past the end of the index
ProbeCells(b) == DOMAIN b.index.cells \cup {0, MaxIndex - 1} \cup (b.index.len..(MaxIndex - 1))

Yielded(g, t) == \E k \in 1..Len(g.out) : g.out[k] = t

ByteAt(buf, i) == IF i < Len(buf) THEN buf[i + 1] ELSE 0

\* the bytes from position i on, as the number byte[i] + byte[i+1]*256 + ...
RECURSIVE BytesValue(_, _)
BytesValue(buf, i) ==
    IF i >= Len(buf) THEN 0 ELSE ByteAt(buf, i) + 256 * BytesValue(buf, i + 1)

\* C7: buffer_to_offset returns the sum of byte[i] * 256^i for a buffer of
\* any length: b[0] + b[1]*256 + b[2]*65536 + b[3]*16777216 + b[4]*4294967296
\* for five bytes, the four-term sum for four bytes, 0 for the empty buffer.
\* The value is compared in its two parts: below 2^24 the sum of the first
\* three bytes, and in units of 2^24 (= 16777216) the sum of the others.
C7_LittleEndianSum ==
    last.op = "buffer_to_offset"
    => /\ offset.lo = ByteAt(buffer, 0) + ByteAt(buffer, 1) * 256 + ByteAt(buffer, 2) * 65536
       /\ offset.hi = BytesValue(buffer, 3)
       /\ Len(buffer) = 5 => offset.hi = buffer[4] + buffer[5] * 256
       /\ Len(buffer) = 4 => offset.hi = buffer[4]
       /\ buffer = <<>> => offset = BigZero

\* a buffer of five bytes, the last not zero, has been decoded
C7_Reached ==
    /\ last.op = "buffer_to_offset"
    /\ Len(buffer) = 5
    /\ buffer[5] = 1
    /\ buffer[1] = 255
    /\ offset = [hi |-> 256, lo |-> 255]

\* C8: the reader's zoom_levels lists, in the order of the configuration, the
\* web zoom level each level of detail resolves to, and on a package whose
\* resolutions decrease from one level to the next the list is strictly
\* increasing.
C8_ZoomLevelsResolved ==
    /\ Len(tpk.zoom_levels) = Len(archive.lodinfos)
    /\ \A k \in 1..Len(archive.lodinfos) :
          tpk.zoom_levels[k]
            = web_tile_zoom_level_from_resolution(archive.lodinfos[k].Resolution)
    /\ (\A k \in 1..(Len(archive.lodinfos) - 1) :
            archive.lodinfos[k].Resolution > archive.lodinfos[k + 1].Resolution)
       => \A k \in 1..(Len(tpk.zoom_levels) - 1) :
            tpk.zoom_levels[k] < tpk.zoom_levels[k + 1]

\* the reader of the package of levels 0, 1, 2 at zooms 2, 3, 4 is open
C8_Reached ==
    /\ archive = NonStandardPkg
    /\ tpk.open
    /\ Range(tpk.zoom_levels) = {0, 1, 2}
    /\ tpk.web_tile_level_map[0] = 2

\* C9: on a package of mixed format, to_mbtiles and to_disk raise ValueError
\* and leave everything as it was: no file made, removed or emptied, no
\* directory made, nothing written, no tile read; the commands that call them
\* change no file and no directory either.
C9_MixedRaises ==
    [][ ~NotMixed(archive)
        => /\ last'.op \in {"to_mbtiles", "to_disk"}
                => /\ last'.err = "ValueError"
                   /\ files' = files
                   /\ dirs' = dirs
                   /\ tpk' = tpk
                   /\ gens' = gens
           /\ last'.op \in {"cli_mbtiles", "cli_disk"}
                => /\ last'.exit_code = 1
                   /\ files' = files
                   /\ dirs' = dirs ]_vars

\* to_mbtiles has raised on a package of mixed format, an earlier file at the
\* target name being still there
C9_Reached ==
    /\ ~NotMixed(archive)
    /\ last.op = "to_mbtiles"
    /\ last.err = "ValueError"
    /\ files[OutMbtilesName] = ForeignFile
    /\ dirs = NoDir

HasEntries(d) == d.exists /\ DOMAIN d.entries # {}

C11_BadScheme ==
    [][ (last'.op = "to_disk" /\ last'.scheme \notin {"xyz", "arcgis"})
        => /\ last'.err = "ValueError"
           /\ dirs' = dirs
           /\ files' = files
           /\ tpk' = tpk
           /\ gens' = gens ]_vars

\* to_disk has raised for its scheme, on an open reader of a package that is
\* not of mixed format, the directory still absent
C11_Reached ==
    /\ last.op = "to_disk"
    /\ last.scheme \notin {"xyz", "arcgis"}
    /\ last.err = "ValueError"
    /\ NotMixed(archive)
    /\ tpk.open
    /\ dirs = NoDir

\* C12: `export mbtiles` when the file it writes to exists already: without
\* --overwrite it ends with exit code 1 and the message 'Output exists and
\* overwrite is false. ...', every file as it was; with --overwrite, on a
\* package that is not of mixed format, it ends with exit code 0 and the file
\* is the new export.
C12_ExistingOutput ==
    [][ (last'.op = "cli_mbtiles" /\ files[TargetName(last'.filename)].exists)
        => /\ ~last'.overwrite
                => /\ last'.exit_code = 1
                   /\ last'.msg = "Output exists and overwrite is false. Use --overwrite option to overwrite"
                   /\ files' = files
           /\ (last'.overwrite /\ NotMixed(archive))
                => /\ last'.exit_code = 0
                   /\ ~files'[TargetName(last'.filename)].foreign
                   /\ files'[TargetName(last'.filename)].meta.set
                   /\ files'[TargetName(last'.filename)].tiles # <<>> ]_vars

\* `export mbtiles out`, without --overwrite, has ended with exit code 0
\* where out.mbtiles existed
C12_Reached ==
    /\ last.op = "cli_mbtiles"
    /\ last.filename = OutName
    /\ ~last.overwrite
    /\ last.exit_code = 0
    /\ files[OutMbtilesName].exists
    /\ ~files[OutMbtilesName].foreign

\* the positions of the bundles a zoom argument selects: those in the
\* directory of a level whose number is in it
BundlesOfLevels(a, zoom) ==
    {k \in 1..Len(a.bundles) :
        zoom.kind = "none" \/ LevelOfName(a.bundles[k]) \in Range(zoom.v)}

\* the zoom argument an export hands to read_tiles
ExportFilter(r, zoom) == ZList(ZoomList(r, zoom))

\* C13 as stated: once the reader is closed it stays closed, close() again
\* changes nothing, and every read made afterwards, a step of read_tiles or
\* an export, ends with an error, whatever its zoom filter.
C13_ReadsFailAfterClose ==
    [][ ~tpk.open
        => /\ ~tpk'.open
           /\ last'.op = "close" => UNCHANGED <<tpk, gens, files, dirs>>
           /\ last'.op \in {"next", "to_mbtiles", "to_disk"} => last'.err # "none" ]_vars

\* C13: close() closes the reader; once closed it stays closed and close()
\* again changes nothing. A read_tiles iteration that takes its first step on
\* a closed reader yields no tile: it raises when its zoom filter selects a
\* bundle, and ends at once, without error, when it selects none. No step of any
\* iteration enters a bundle once the reader is closed: an iteration that was
\* inside a bundle may still yield tiles of that bundle only. On a closed
\* reader to_mbtiles writes no tile and to_disk no file, and each raises when
\* its zoom filter selects a bundle.
C13_Lifecycle ==
    [][ /\ last'.op = "close" => ~tpk'.open
        /\ ~tpk.open
           => /\ ~tpk'.open
              /\ last'.op = "close" => UNCHANGED <<tpk, gens, files, dirs>>
              /\ \A f \in BOOLEAN :
                    (last'.op = "next" /\ gens'[f] # gens[f])
                    => /\ gens[f].pc = "new"
                          => /\ gens'[f].out = <<>>
                             /\ IF BundlesOfLevels(archive, gens[f].zoom) # {}
                                THEN gens'[f].pc = "raised" /\ gens'[f].err # "none"
                                ELSE gens'[f].pc = "done" /\ gens'[f].err = "none"
                       /\ gens[f].pc = "suspended"
                          => \/ gens'[f].pc = "raised" /\ gens'[f].err # "none"
                             \/ gens'[f].pc = "done"
                             \/ /\ gens'[f].pc = "suspended"
                                /\ gens'[f].bpos = gens[f].bpos
                                /\ Len(gens'[f].out) = Len(gens[f].out) + 1
              /\ last'.op = "to_mbtiles"
                    => /\ files'[TargetName(last'.filename)].tiles = <<>>
                       /\ BundlesOfLevels(archive, ExportFilter(tpk, last'.zoom)) # {}
                             => last'.err # "none"
              /\ last'.op = "to_disk"
                    => /\ dirs'.entries = dirs.entries
                       /\ BundlesOfLevels(archive, ExportFilter(tpk, last'.zoom)) # {}
                             => last'.err # "none" ]_vars

\* on a closed reader, an iteration begun after the close has raised at its
\* first step
C13_Reached ==
    /\ ~tpk.open
    /\ last.op = "next"
    /\ last.err = "ValueError"
    /\ gens[FALSE].pc = "raised"
    /\ gens[FALSE].out = <<>>
    /\ NotMixed(archive)

\* the tiles a read of the package with the levels `levels` (every level when
\* `all`) yields, by the package, the levels and flip_y alone
TilesOfLevels(a, all, levels, flip) ==
    TilesInGrid(a,
                SortedSeq({k \in 1..Len(a.bundles) :
                              all \/ LevelOfName(a.bundles[k]) \in levels}),
                flip)

\* an int zoom argument as the list of it
AsList(zoom) == IF zoom.kind = "int" THEN ZList(zoom.v) ELSE zoom

\* the sequence of every package, zoom argument (None or a list) and flip_y
\* of the reads made again
RestartTiles ==
    [a \in Packages, zoom \in {AsList(z) : z \in RestartZooms}, f \in BOOLEAN |->
        TilesOfLevels(a, zoom.kind = "none", Range(zoom.v), f)]

\* C14: on an open reader, what an invocation of read_tiles yields is decided
\* by the package, the zoom argument and flip_y alone, whatever reads, reads
\* left unfinished and exports were made before on the reader: at every step
\* the tiles yielded so far are the first of one finite sequence, and all of
\* it at the end; an int z decides the sequence of the list [z].
C14_Restartable ==
    \A f \in BOOLEAN :
        (tpk.open /\ WellNamed(archive) /\ gens[f].pc \in {"suspended", "done"})
        => /\ Len(gens[f].out) <= Len(RestartTiles[archive, AsList(gens[f].zoom), f])
           /\ gens[f].out = SubSeq(RestartTiles[archive, AsList(gens[f].zoom), f],
                                   1, Len(gens[f].out))
           /\ gens[f].pc = "done"
                => Len(gens[f].out) = Len(RestartTiles[archive, AsList(gens[f].zoom), f])

\* after an export that moved the reader's extent and a read left unfinished,
\* a read of zoom=2 has reached its end with tiles yielded
C14_Reached ==
    /\ archive = NonStandardPkg
    /\ tpk.maxcolumn > 0
    /\ gens[TRUE].pc = "suspended"
    /\ gens[FALSE].pc = "done"
    /\ gens[FALSE].zoom = ZInt(2)
    /\ Len(gens[FALSE].out) = 2


\* the tiles read_tiles yields for the export of levels `zoom`, rows flipped
TilesRead(a, r, zoom) == Drain(a, r, NewGen(ExportFilter(r, zoom), NoneVal, TRUE)).g.out

\* the zooms of the tiles of a file
ZoomsWritten(f) == {f.tiles[k].z : k \in 1..Len(f.tiles)}

\* C15: after to_mbtiles with the drop option has returned, no tile of the
\* file has a SHA-1 digest of EMPTY_TILES, the file holds every other tile
\* read, in order, and minzoom and maxzoom are the lowest and the highest zoom
\* of the tiles kept.
C15_DropEmpty ==
    (last.op = "to_mbtiles" /\ last.err = "none" /\ last.drop)
    => /\ \A k \in 1..Len(files[TargetName(last.filename)].tiles) :
              Sha1(files[TargetName(last.filename)].tiles[k].data) \notin EMPTY_TILES
       /\ files[TargetName(last.filename)].tiles
            = SelectSeq(TilesRead(archive, tpk, last.zoom),
                        LAMBDA t : Sha1(t.data) \notin EMPTY_TILES)
       /\ files[TargetName(last.filename)].tiles # <<>>
            => /\ files[TargetName(last.filename)].meta.minzoom
                    = Str(SetMin(ZoomsWritten(files[TargetName(last.filename)])))
               /\ files[TargetName(last.filename)].meta.maxzoom
                    = Str(SetMax(ZoomsWritten(files[TargetName(last.filename)])))

\* to_mbtiles(drop_transparent=True, zoom=[1, 0]) has returned on the package
\* of zooms 0, 1, 2 and the blank PNG of level 1 is in the file
C15_Reached ==
    /\ archive = StandardPkg
    /\ last.op = "to_mbtiles"
    /\ last.err = "none"
    /\ last.drop
    /\ last.zoom = ZList(<<1, 0>>)
    /\ \E k \in 1..Len(files[OutMbtilesName].tiles) :
          Sha1(files[OutMbtilesName].tiles[k].data) = "aba7a74e3b932e32bdb21d670a16a08a9460591a"


\* the tiles of a file at the highest zoom it holds
TopTiles(f) == {t \in Range(f.tiles) : t.z = SetMax(ZoomsWritten(f))}

\* C16: after to_mbtiles with calc_bounds has returned, whatever reads and
\* exports were made on the reader before and whether tiles were dropped, the
\* extent the bounds are computed from is the least and the greatest column
\* and row of the tiles of the file at the highest zoom it holds.
C16_BoundsFromWritten ==
    ( /\ last.op = "to_mbtiles"
      /\ last.err = "none"
      /\ last.calc_bounds
      /\ files[TargetName(last.filename)].tiles # <<>> )
    => /\ files[TargetName(last.filename)].meta.bounds.kind = "tiles"
       /\ files[TargetName(last.filename)].meta.bounds.mincolumn
            = SetMin({t.x : t \in TopTiles(files[TargetName(last.filename)])})
       /\ files[TargetName(last.filename)].meta.bounds.maxcolumn
            = SetMax({t.x : t \in TopTiles(files[TargetName(last.filename)])})
       /\ files[TargetName(last.filename)].meta.bounds.minrow
            = SetMin({t.y : t \in TopTiles(files[TargetName(last.filename)])})
       /\ files[TargetName(last.filename)].meta.bounds.maxrow
            = SetMax({t.y : t \in TopTiles(files[TargetName(last.filename)])})

\* to_mbtiles(calc_bounds=True, zoom=[1, 0]) has returned on the package of
\* zooms 0, 1, 2 after an export of all its levels: the extent holds row 2, of
\* zoom 2, while the rows of the file at zoom 1 are 0 and 1
C16_Reached ==
    /\ archive = StandardPkg
    /\ last.op = "to_mbtiles"
    /\ last.err = "none"
    /\ last.calc_bounds
    /\ ~last.drop
    /\ last.zoom = ZList(<<1, 0>>)
    /\ files[TargetName(last.filename)].meta.bounds.kind = "tiles"
    /\ files[TargetName(last.filename)].meta.bounds.maxrow = 2
    /\ {t.y : t \in TopTiles(files[TargetName(last.filename)])} = {0, 1}


\* the file of a tile under the default path_format, for the raster formats
\* PNG and JPEG
DefaultPath(a, t) ==
    ToString(t.z) \o "/" \o ToString(t.x) \o "/" \o ToString(t.y) \o "."
        \o (IF a.format = PNG THEN "png" ELSE "jpg")

\* the tiles to_disk reads, in the order of the package
DiskTiles(a, r, zoom, scheme) ==
    TilesOfLevels(a, FALSE, Range(ZoomList(r, zoom)), scheme = XYZ)

KeptOnDisk(drop_empty, t) == ~(drop_empty /\ Sha1(t.data) \in EMPTY_TILES)

\* C17: after to_disk has returned, every tile read that is kept (not of an
\* EMPTY_TILES digest when drop_empty is set) has its payload, byte for byte,
\* in the file at z/x/y.ext, ext being png or jpg, a tile that is dropped has
\* no file, and the directory holds no other file.
C17_FileTree ==
    (last.op = "to_disk" /\ last.err = "none")
    => /\ \A t \in Range(DiskTiles(archive, tpk, last.zoom, last.scheme)) :
             IF KeptOnDisk(last.drop, t)
             THEN /\ DefaultPath(archive, t) \in DOMAIN dirs.entries
                  /\ dirs.entries[DefaultPath(archive, t)] = t.data
             ELSE DefaultPath(archive, t) \notin DOMAIN dirs.entries
       /\ DOMAIN dirs.entries
            = { DefaultPath(archive, t) :
                  t \in {u \in Range(DiskTiles(archive, tpk, last.zoom, last.scheme)) :
                            KeptOnDisk(last.drop, u)} }

\* to_disk(zoom=None, scheme='xyz', drop_empty=True) has returned on the JPEG
\* package of one level at zoom 8: the tile of cell 3 is in its file and the
\* blank and the transparent tiles have none
C17_Reached ==
    /\ archive = DeepPkg
    /\ last.op = "to_disk"
    /\ last.err = "none"
    /\ last.drop
    /\ last.zoom = ZNone
    /\ last.scheme = XYZ
    /\ DOMAIN dirs.entries # {}
    /\ \A p \in DOMAIN dirs.entries : dirs.entries[p] = <<7, 8>>
    /\ \E t \in Range(DiskTiles(archive, tpk, last.zoom, last.scheme)) : t.data = <<9>>


\* whether minzoom, and maxzoom, of the metadata of a file is the number n
MetaZoom(f, n) == [minzoom |-> f.meta.minzoom = ToString(n),
                   maxzoom |-> f.meta.maxzoom = ToString(n)]

\* the metadata claims a zoom range that is not empty
ClaimsZoomRange(f) ==
    /\ f.meta.set
    /\ ~ \E lo \in 0..31, hi \in 0..31 :
            hi < lo /\ MetaZoom(f, lo).minzoom /\ MetaZoom(f, hi).maxzoom

\* C18: an export whose zoom argument is a list or an int none of whose zoom
\* levels is a zoom level of the package either raises, or returns with no
\* tile written and, for to_mbtiles, with no metadata of a non-empty zoom
\* range.
C18_EmptySelection ==
    ( /\ last.op \in {"to_mbtiles", "to_disk"}
      /\ last.zoom.kind # "none"
      /\ Range(last.zoom.v) \cap ResolvedZooms(archive) = {} )
    => \/ last.err # "none"
       \/ /\ last.op = "to_mbtiles"
          /\ Written.tiles = <<>>
          /\ ~ClaimsZoomRange(Written)
       \/ /\ last.op = "to_disk"
          /\ DOMAIN dirs.entries = {}

\* to_mbtiles(zoom=[1, 0]) has returned on the package of zooms 2, 3, 4
C18_Reached ==
    /\ archive = NonStandardPkg
    /\ last.op = "to_mbtiles"
    /\ last.zoom = ZList(<<1, 0>>)
    /\ last.err = "none"
    /\ ZoomsOf(Written.tiles) = {2, 3}
    /\ Written.meta.minzoom = "2"
    /\ Written.meta.maxzoom = "3"


\* the record of cell i of bundle b declares more payload bytes than the data
\* file holds after the 4 bytes of the length
Truncated(b, i) ==
    /\ BigIsSmall(buffer_to_offset(IndexSlice(b.index, i)))
    /\ buffer_to_offset(IndexSlice(b.index, i)).lo + 4 <= Len(b.blob)
    /\ \/ ~BigIsSmall(CellLength(b, i))
       \/ CellLength(b, i).lo
            > Len(b.blob) - (buffer_to_offset(IndexSlice(b.index, i)).lo + 4)

\* C19: a read never yields the tile of a cell whose record is truncated with
\* the bytes that are there as its payload, and a read of a bundle that holds
\* such a cell does not reach its end without an error.
C19_TruncatedFails ==
    \A f \in BOOLEAN :
        WellNamed(archive)
        => \A k \in Range(gens[f].bundles) : \A i \in ProbeCells(archive.bundles[k]) :
              Truncated(archive.bundles[k], i)
              => /\ ~Yielded(gens[f], CellTile(archive, archive.bundles[k], i, gens[f].flip_y,
                                               CellData(archive.bundles[k], i)))
                 /\ gens[f].pc # "done"

\* a read of the package of zooms 0, 1, 2 has reached its end and has yielded
\* the tile of cell 130 of level 2, of 3 bytes declared, with the 1 byte stored
C19_Reached ==
    /\ archive = StandardPkg
    /\ Truncated(archive.bundles[3], 130)
    /\ gens[FALSE].pc = "done"
    /\ gens[FALSE].err = "none"
    /\ Yielded(gens[FALSE], Tile(2, 1, 2, <<6>>))


\* C20: a read never yields, for a cell whose entry the index file lacks, the
\* tile of the record at the start of the data file, and a read of a bundle
\* whose index file holds fewer than 16384 entries does not reach its end
\* without an error.
C20_ShortIndexFails ==
    \A f \in BOOLEAN :
        WellNamed(archive)
        => \A k \in Range(gens[f].bundles) :
              archive.bundles[k].index.len < MaxIndex
              => /\ gens[f].pc # "done"
                 /\ \A i \in archive.bundles[k].index.len..(MaxIndex - 1) :
                       ~Yielded(gens[f], CellTile(archive, archive.bundles[k], i, gens[f].flip_y,
                                                  read_tile(archive.bundles[k].blob, BigZero)))

\* a read of the package whose index lacks the entries of cells 16382 and
\* 16383 has reached its end and has yielded, for cell 16383, the byte of the
\* record at offset 0 of the data file
C20_Reached ==
    /\ archive = ShortIndexPkg
    /\ IndexSlice(archive.bundles[1].index, 16383) = <<>>
    /\ gens[FALSE].pc = "done"
    /\ gens[FALSE].err = "none"
    /\ Yielded(gens[FALSE], Tile(8, 127, 127, <<3>>))


\* a sidecar of the package is missing or malformed, or lacks a required element
Faulted(a) == \E name \in {"conf", "iteminfo", "mapserver"} : Sidecar(a, name) # "ok"

\* C21: TPK(filename) on a package one of whose sidecars is missing or
\* malformed, or whose iteminfo.xml lacks title, summary or tags, raises,
\* leaves no reader, and does not leave the ZipFile it opened open.
C21_OpenAborts ==
    [][ (last'.op = "open" /\ Faulted(archive))
        => /\ last'.err # "none"
           /\ tpk' = NoTPK
           /\ fp' # "open" ]_vars

\* TPK(filename) has raised AttributeError on a package whose iteminfo.xml
\* lacks its summary; no reader was made and the ZipFile is open
C21_Reached ==
    /\ Sidecar(archive, "conf") = "ok"
    /\ Sidecar(archive, "iteminfo") = "no_summary"
    /\ last.op = "open"
    /\ last.err = "AttributeError"
    /\ tpk = NoTPK
    /\ fp = "open"


\* the INSERT of a tile of the batch raises before the iterable ends or raises
InsertFails(tiles) == InsertAll(tiles, <<>>).status = "db_error"

\* C22: when an INSERT fails part-way through the batch of add_tiles, made on
\* an open MBtiles object with no transaction open, the committed rows are
\* those there were before the call, none of the batch's tiles among them,
\* no transaction is left, and an exception leaves add_tiles.
C22_AtomicBatch ==
    [][ (last'.op = "add_tiles" /\ db.conn = "open" /\ ~db.in_tx /\ InsertFails(last'.batch))
        => /\ db'.rows = db.rows
           /\ db'.pending = <<>>
           /\ ~db'.in_tx
           /\ last'.err # "none" ]_vars

\* add_tiles has returned without an exception from a batch whose second
\* INSERT raised, after an earlier batch was committed
C22_Reached ==
    /\ last.op = "add_tiles"
    /\ Len(last.batch) = 2
    /\ last.batch[1].ok
    /\ InsertFails(last.batch)
    /\ last.err = "none"
    /\ ~db.in_tx
    /\ Len(db.rows) >= 1


\* C25: whenever add_tiles has returned or raised, and so before any later
\* add_tile, add_tiles, set_metadata or close, the MBtiles object has no
\* transaction open and no row that is neither committed nor rolled back.
C25_NoPendingTransaction == ~db.in_tx /\ db.pending = <<>>

\* add_tiles has raised the exception of its iterable after one INSERT, and
\* the transaction it began is open with that row in it
C25_Reached ==
    /\ last.op = "add_tiles"
    /\ Len(last.batch) = 2
    /\ last.batch[2] = RaiseItem
    /\ last.err = "ValueError"
    /\ db.in_tx
    /\ Len(db.pending) = 1


\* the bundles at positions ks of the package have origins that are multiples
\* of 128 and, within one level, pairwise distinct
DistinctOrigins(a, ks) ==
    /\ \A k \in ks : RowOffset(a.bundles[k]) % 128 = 0 /\ ColumnOffset(a.bundles[k]) % 128 = 0
    /\ \A k1 \in ks, k2 \in ks :
          (k1 # k2 /\ a.bundles[k1].level = a.bundles[k2].level)
          => \/ RowOffset(a.bundles[k1]) # RowOffset(a.bundles[k2])
             \/ ColumnOffset(a.bundles[k1]) # ColumnOffset(a.bundles[k2])

\* distinct levels of detail resolve to distinct zooms
DistinctZooms(a) == Cardinality(ResolvedZooms(a)) = Len(a.lodinfos)

\* no two tiles of the sequence have the same zoom, column and row
UniqueKeys(tiles) ==
    \A m \in 1..Len(tiles), n \in 1..Len(tiles) :
        m # n => <<tiles[m].z, tiles[m].x, tiles[m].y>> # <<tiles[n].z, tiles[n].x, tiles[n].y>>

\* C23: on a package whose levels resolve to distinct zooms, the tiles one
\* read_tiles invocation has yielded, flipped or not, from bundles of origins
\* that are multiples of 128 and distinct within a level, have pairwise
\* distinct (zoom, column, row); so have the tiles of an mbtiles file an
\* export wrote, and to_disk leaves as many files as it read tiles.
C23_UniqueIdentity ==
    (WellNamed(archive) /\ DistinctZooms(archive))
    => /\ \A f \in BOOLEAN :
             DistinctOrigins(archive, Range(gens[f].bundles)) => UniqueKeys(gens[f].out)
       /\ DistinctOrigins(archive, 1..Len(archive.bundles))
            => /\ \A n \in FileNames : UniqueKeys(files[n].tiles)
               /\ (last.op = "to_disk" /\ last.err = "none")
                    => Cardinality(DOMAIN dirs.entries)
                         = Len(DiskTiles(archive, tpk, last.zoom, last.scheme))

\* a read of the package of four bundles of one level has reached its end
\* with the four tiles inside the range, after an export to a directory
C23_Reached ==
    /\ archive = DeepPkg
    /\ DistinctZooms(archive)
    /\ DistinctOrigins(archive, Range(gens[FALSE].bundles))
    /\ gens[FALSE].pc = "done"
    /\ Len(gens[FALSE].out) = 4
    /\ Cardinality(DOMAIN dirs.entries) = 4


\* the characters are hex digits, at least one, and their value
IsHexField(s) == s # <<>> /\ \A k \in 1..Len(s) : IsHex(s[k])
\* the places of the name where a C separates two hex fields that follow an R
Separators(root) ==
    { p \in 3..(Len(root) - 1) :
        /\ root[1] = "R"
        /\ root[p] = "C"
        /\ IsHexField(SubSeq(root, 2, p - 1))
        /\ IsHexField(SubSeq(root, p + 1, Len(root))) }
\* the directory is named L<digits>
IsLevelName(level) ==
    /\ Len(level) >= 2
    /\ level[1] = "L"
    /\ \A k \in 2..Len(level) : IsDec(level[k])

\* C24: on an open reader, of a bundle named R<hex>C<hex> in a directory
\* L<digits> read_tiles raises nothing and takes the first hex field as the
\* row offset, the second as the column offset and the digits as the level,
\* whatever the case of the hex digits, the digit C included; of a bundle
\* named otherwise the read raises and yields no tile.
C24_OriginParsing ==
    \A f \in BOOLEAN :
        (tpk.open /\ gens[f].pc \in {"suspended", "done", "raised"} /\ Len(archive.bundles) = 1)
        => IF Separators(archive.bundles[1].root) # {} /\ IsLevelName(archive.bundles[1].level)
           THEN /\ gens[f].pc # "raised"
                /\ \E p \in Separators(archive.bundles[1].root) :
                      /\ gens[f].r_off
                           = DigitsVal(SubSeq(archive.bundles[1].root, 2, p - 1), 16, 0)
                      /\ gens[f].c_off
                           = DigitsVal(SubSeq(archive.bundles[1].root, p + 1,
                                              Len(archive.bundles[1].root)), 16, 0)
                /\ gens[f].z
                     = Get(tpk.web_tile_level_map,
                           DigitsVal(Tail(archive.bundles[1].level), 10, 0))
           ELSE /\ gens[f].pc = "raised"
                /\ gens[f].out = <<>>

\* a read of the bundle R0000C00C0 of directory L00 has raised ValueError,
\* and so the name with the hex digit C in its column field is not read
C24_Reached ==
    /\ archive = NamedPkg(Level(0), <<"R", "0", "0", "0", "0", "C", "0", "0", "C", "0">>)
    /\ tpk.open
    /\ gens[FALSE].pc = "raised"
    /\ gens[FALSE].err = "ValueError"
    /\ gens[FALSE].out = <<>>

====
